---- MODULE Spec2Model ----
(***************************************************************************)
(* Model of src/script.js, class RAGChatSystem: the retrieval transport    *)
(* with its CORS-relay fallback, text normalisation, TF-IDF vectors,       *)
(* cosine ranking, response composition and the time-bounded query cache,  *)
(* driven by overlapping asynchronous processQuery calls; and class        *)
(* ChatUI: the send handler of the page with its loading state.            *)
(*                                                                         *)
(* Text is a sequence of one-character strings.  Numbers that the script   *)
(* keeps as floating point are fixed point here: natural logarithms,       *)
(* TF-IDF weights and similarities are in thousandths.                     *)
(***************************************************************************)
EXTENDS Integers, Sequences, FiniteSets, TLC

(***************************************************************************)
(* Bounds of the model                                                     *)
(***************************************************************************)
\* number of clock advances in a behaviour
MaxTicks == 2
\* number of processQuery calls started in a behaviour
MaxStarted == 2
\* length of the similarity lists and largest topK of the ranking specification
MaxSims == 3
MaxTopK == 3
\* number of posts of the scoring specification
MaxPosts == 2
\* number of handleSendMessage runs in a behaviour
MaxSends == 3

\* the call slots: c1 runs the sequential calls, c2 is for a call that overlaps
Calls == {"c1", "c2"}
SequentialCalls == {"c1"}

(***************************************************************************)
(* Generic sequence helpers (Array.prototype.map / filter / slice / flat)  *)
(***************************************************************************)
SeqToSet(s) == {s[i] : i \in 1..Len(s)}

Min(a, b) == IF a < b THEN a ELSE b

\* Array.prototype.slice(0, k) for k >= 0
Slice0(s, k) == SubSeq(s, 1, Min(k, Len(s)))

RECURSIVE Flat(_)
\* Array.prototype.flat over a sequence of sequences
Flat(ss) == IF ss = <<>> THEN <<>> ELSE Head(ss) \o Flat(Tail(ss))

RECURSIVE Dedupe(_)
\* Array.from(new Set(s)): first occurrences, in insertion order
Dedupe(s) ==
    IF s = <<>> THEN <<>>
    ELSE LET r == Dedupe(SubSeq(s, 1, Len(s) - 1))
             x == s[Len(s)]
         IN IF x \in SeqToSet(r) THEN r ELSE Append(r, x)

RECURSIVE SumSeq(_)
SumSeq(s) == IF s = <<>> THEN 0 ELSE Head(s) + SumSeq(Tail(s))

(***************************************************************************)
(* Text: String.prototype.trim / toLowerCase / replace / split             *)
(***************************************************************************)
IsSpace(ch) == ch = " "

RECURSIVE TrimLeft(_)
TrimLeft(t) == IF t # <<>> /\ IsSpace(Head(t)) THEN TrimLeft(Tail(t)) ELSE t

RECURSIVE TrimRight(_)
TrimRight(t) ==
    IF t # <<>> /\ IsSpace(t[Len(t)]) THEN TrimRight(SubSeq(t, 1, Len(t) - 1)) ELSE t

\* String.prototype.trim
Trim(t) == TrimRight(TrimLeft(t))

\* String.prototype.toLowerCase on the model's alphabet
LowerChar(ch) == IF ch = "A" THEN "a" ELSE IF ch = "B" THEN "b" ELSE ch
ToLowerCase(t) == [i \in 1..Len(t) |-> LowerChar(t[i])]

\* the character class [Ѐ-ӿ\w\s] of preprocessText
WordChars == {"a", "b", "c", "d", "x", "y", "1", "_"}
IsWordOrSpace(ch) == ch \in WordChars \/ IsSpace(ch)

\* .replace(/[^Ѐ-ӿ\w\s]/g, ' ')
ReplaceNonWord(t) == [i \in 1..Len(t) |-> IF IsWordOrSpace(t[i]) THEN t[i] ELSE " "]

RECURSIVE CollapseWs(_)
\* .replace(/\s+/g, ' ')
CollapseWs(t) ==
    IF Len(t) < 2 THEN t
    ELSE IF IsSpace(t[1]) /\ IsSpace(t[2]) THEN CollapseWs(Tail(t))
    ELSE <<t[1]>> \o CollapseWs(Tail(t))

RECURSIVE SplitWs(_, _)
\* .split(/\s+/): cur is the piece being read; "" splits to [""]
SplitWs(t, cur) ==
    IF t = <<>> THEN <<cur>>
    ELSE IF IsSpace(Head(t)) THEN <<cur>> \o SplitWs(TrimLeft(t), <<>>)
    ELSE SplitWs(Tail(t), Append(cur, Head(t)))

\* preprocessText: lower case, non-word characters to spaces, split, keep words longer than 2
preprocessText(text) ==
    LET words == SplitWs(Trim(CollapseWs(ReplaceNonWord(ToLowerCase(text)))), <<>>)
        LongWord(w) == Len(w) > 2
    IN SelectSeq(words, LongWord)

(***************************************************************************)
(* cleanHtml: markup is an atom of the text ("<b>", "<script>" stands for  *)
(* a whole script element), entities are atoms too                         *)
(***************************************************************************)
MarkupAtoms == {"<b>", "</b>", "<script>", "<style>"}

DecodeEntity(ch) ==
    IF ch = "&nbsp;" THEN " "
    ELSE IF ch = "&amp;" THEN "&"
    ELSE IF ch = "&lt;" THEN "<"
    ELSE IF ch = "&gt;" THEN ">"
    ELSE IF ch = "&quot;" THEN "\""
    ELSE ch

\* cleanHtml: "" for an empty field; else visible text, entities decoded,
\* whitespace collapsed, trimmed
cleanHtml(htmlText) ==
    IF htmlText = <<>> THEN <<>>
    ELSE LET NotMarkup(ch) == ch \notin MarkupAtoms
             text == SelectSeq(htmlText, NotMarkup)
             decoded == [i \in 1..Len(text) |-> DecodeEntity(text[i])]
         IN Trim(CollapseWs(decoded))

(***************************************************************************)
(* createTfIdfVectors                                                      *)
(***************************************************************************)
\* Math.log of a small positive integer, in thousandths
LnMilli(n) ==
    CASE n = 1 -> 0
      [] n = 2 -> 693
      [] n = 3 -> 1099
      [] n = 4 -> 1386
      [] n = 5 -> 1609
      [] n = 6 -> 1792
      [] n = 7 -> 1946
      [] n = 8 -> 2079

\* variant: the document frequency is not increased by one
IdfUnsmoothed(docCount, docFreq) == LnMilli(docCount) - LnMilli(docFreq)

\* Math.log(docCount / (1 + docFreq)), in thousandths
Idf(docCount, docFreq) == LnMilli(docCount) - LnMilli(1 + docFreq)

\* the number of occurrences of word in words (wordCount.get(word))
CountWord(words, word) == Cardinality({i \in 1..Len(words) : words[i] = word})

\* createTfIdfVectors: one vector per document over the corpus vocabulary,
\* component = tf * idf in thousandths, 0 for a word the document lacks
createTfIdfVectors(documents) ==
    LET processedDocs == [d \in 1..Len(documents) |-> preprocessText(documents[d])]
        vocabArray == Dedupe(Flat(processedDocs))
        docCount == Len(processedDocs)
        docFreq(word) ==
            Cardinality({d \in 1..docCount : word \in SeqToSet(processedDocs[d])})
        idfMap == [i \in 1..Len(vocabArray) |-> Idf(docCount, docFreq(vocabArray[i]))]
        vector(words) ==
            [i \in 1..Len(vocabArray) |->
                IF vocabArray[i] \in SeqToSet(words)
                THEN (CountWord(words, vocabArray[i]) * idfMap[i]) \div Len(words)
                ELSE 0]
    IN [vectors |-> [d \in 1..docCount |-> vector(processedDocs[d])],
        vocabulary |-> vocabArray]

(***************************************************************************)
(* cosineSimilarity                                                        *)
(***************************************************************************)
RECURSIVE SqrtSearch(_, _, _)
\* least r in lo..hi with r * r >= n
SqrtSearch(n, lo, hi) ==
    IF lo >= hi THEN lo
    ELSE LET mid == (lo + hi) \div 2
         IN IF mid * mid >= n THEN SqrtSearch(n, lo, mid)
            ELSE SqrtSearch(n, mid + 1, hi)

\* Math.sqrt: the floating-point square root is the representable number
\* nearest to the exact root; the representable numbers here are the units
Sqrt(n) ==
    LET up == SqrtSearch(n, 0, 2048)
        down == IF up * up = n THEN up ELSE up - 1
    IN IF n > down * down + down THEN down + 1 ELSE down

\* the floating-point quotient a / b of a >= 0 and b > 0: the representable
\* number nearest to the exact quotient
DivideRounded(a, b) ==
    LET q == a \div b
    IN IF 2 * (a - q * b) >= b THEN q + 1 ELSE q

\* the value that stands for NaN, the result of 0 / 0
NotANumber == 0 - 1

\* variant: the division is made also when a norm is 0
cosineSimilarityUnguarded(vecA, vecB) ==
    LET dotProduct == SumSeq([i \in 1..Len(vecA) |-> vecA[i] * vecB[i]])
        normA == SumSeq([i \in 1..Len(vecA) |-> vecA[i] * vecA[i]])
        normB == SumSeq([i \in 1..Len(vecA) |-> vecB[i] * vecB[i]])
    IN IF Sqrt(normA) * Sqrt(normB) = 0 THEN NotANumber
       ELSE DivideRounded(1000 * dotProduct, Sqrt(normA) * Sqrt(normB))

\* cosineSimilarity, in thousandths; 0 when either norm is 0
cosineSimilarity(vecA, vecB) ==
    LET dotProduct == SumSeq([i \in 1..Len(vecA) |-> vecA[i] * vecB[i]])
        normA == SumSeq([i \in 1..Len(vecA) |-> vecA[i] * vecA[i]])
        normB == SumSeq([i \in 1..Len(vecA) |-> vecB[i] * vecB[i]])
    IN IF normA = 0 \/ normB = 0 THEN 0
       ELSE DivideRounded(1000 * dotProduct, Sqrt(normA) * Sqrt(normB))

(***************************************************************************)
(* Documents and retrieval payloads                                        *)
(***************************************************************************)
\* a post object of the WordPress API; isNull marks a null array element
Post(id, title, content, excerpt, date) ==
    [isNull |-> FALSE, id |-> id, title |-> title, content |-> content,
     excerpt |-> excerpt, link |-> <<"/", "p", id>>, date |-> date]

NullPost ==
    [isNull |-> TRUE, id |-> "0", title |-> <<>>, content |-> <<>>,
     excerpt |-> <<>>, link |-> <<>>, date |-> ""]

\* what a JSON body parses to: an array of posts, null, or a non-array object
ArrayPayload(items) == [kind |-> "array", items |-> items]
NullPayload == [kind |-> "null", items |-> <<>>]
ObjectPayload == [kind |-> "object", items |-> <<>>]

\* variant: only the null check
IsEmptyResultNullOnly(posts) == posts.kind = "null"

\* `!posts || posts.length === 0`: null, or an array without elements
\* (a non-array object has no length and passes)
IsEmptyResult(posts) ==
    posts.kind = "null" \/ (posts.kind = "array" /\ Len(posts.items) = 0)

(***************************************************************************)
(* rankRelevantPosts                                                       *)
(***************************************************************************)
\* the similarity threshold 0.01 of the filter, in thousandths
SimilarityThreshold == 10

RECURSIVE InsertDescBeforeEqual(_, _)
\* variant: puts x in front of the elements of equal similarity
InsertDescBeforeEqual(sorted, x) ==
    IF sorted = <<>> THEN <<x>>
    ELSE IF Head(sorted).similarity > x.similarity
         THEN <<Head(sorted)>> \o InsertDescBeforeEqual(Tail(sorted), x)
         ELSE <<x>> \o sorted

RECURSIVE InsertDesc(_, _)
\* puts x behind every element whose similarity is not smaller
InsertDesc(sorted, x) ==
    IF sorted = <<>> THEN <<x>>
    ELSE IF Head(sorted).similarity >= x.similarity
         THEN <<Head(sorted)>> \o InsertDesc(Tail(sorted), x)
         ELSE <<x>> \o sorted

RECURSIVE SortDesc(_)
\* similarities.sort((a, b) => b.similarity - a.similarity): stable, descending
SortDesc(items) ==
    IF items = <<>> THEN <<>>
    ELSE InsertDesc(SortDesc(SubSeq(items, 1, Len(items) - 1)), items[Len(items)])

\* variant: the filter keeps a similarity equal to the threshold
SelectTopInclusive(similarities, topK) ==
    LET AtLeastThreshold(item) == item.similarity >= SimilarityThreshold
    IN Slice0(SelectSeq(SortDesc(similarities), AtLeastThreshold), topK)

\* the sort, the filter above the threshold and the slice to topK
SelectTop(similarities, topK) ==
    LET AboveThreshold(item) == item.similarity > SimilarityThreshold
    IN Slice0(SelectSeq(SortDesc(similarities), AboveThreshold), topK)

\* .map(item => ({ ...item.post, similarity_score: item.similarity }))
WithScores(top) ==
    [i \in 1..Len(top) |-> [post |-> top[i].post, similarity_score |-> top[i].similarity]]

\* the similarity of every post to the query: posts and query vectorised together
Similarities(query, posts) ==
    LET postTexts == [i \in 1..Len(posts) |->
                        cleanHtml(posts[i].title) \o <<" ">> \o cleanHtml(posts[i].content)]
        allTexts == Append(postTexts, query)
        vectors == createTfIdfVectors(allTexts).vectors
        queryVector == vectors[Len(vectors)]
    IN [i \in 1..Len(posts) |->
          [index |-> i, similarity |-> cosineSimilarity(queryVector, vectors[i]),
           post |-> posts[i]]]

\* the scoring throws: posts is not an array, or an element is null
ScoringThrows(posts) ==
    posts.kind # "array" \/ \E i \in 1..Len(posts.items) : posts.items[i].isNull

\* variant: the scoring leaves out the elements it cannot read and ranks the rest
rankRelevantPostsSkipping(query, posts, topK) ==
    IF IsEmptyResult(posts) THEN <<>>
    ELSE LET Readable(post) == ~post.isNull
         IN WithScores(SelectTop(Similarities(query, SelectSeq(posts.items, Readable)), topK))

\* rankRelevantPosts: the ranked posts with their similarity_score;
\* empty for an empty result and when the scoring throws
rankRelevantPosts(query, posts, topK) ==
    IF IsEmptyResult(posts) THEN <<>>
    ELSE IF ScoringThrows(posts) THEN <<>>
    ELSE WithScores(SelectTop(Similarities(query, posts.items), topK))

(***************************************************************************)
(* generateResponse and the fixed responses of processQuery                *)
(***************************************************************************)
Part(tag, n, text) == [tag |-> tag, n |-> n, text |-> text]

FixedResponse(tag) == [answer |-> <<Part(tag, 0, <<>>)>>, sources |-> <<>>]

\* 'Моля, задайте по-конкретен въпрос (поне 3 символа).'
GuidanceResponse == FixedResponse("guidance")
\* 'Не открих публикации, свързани с вашето търсене.'
NoMatchResponse == FixedResponse("no-match")
\* 'Възникна техническа грешка при търсенето. Моля, опитайте отново.'
TechnicalErrorResponse == FixedResponse("technical-error")
\* 'За съжаление не намерих релевантна информация ...'
NoRelevantResponse == FixedResponse("no-relevant")

\* a date field that is a JSON object whose toString and valueOf are not
\* functions, {"toString": 1, "valueOf": 1}: it has no primitive value
NoPrimitiveDate == "{toString:1,valueOf:1}"

\* new Date(date) throws a TypeError: the conversion of the object to a
\* primitive finds no callable valueOf or toString
DateThrows(date) == date = NoPrimitiveDate

\* generateResponse throws: the date of a ranked post cannot be converted
ComposeThrows(relevantPosts) ==
    \E i \in 1..Len(relevantPosts) : DateThrows(relevantPosts[i].post.date)

\* new Date(date).toLocaleDateString('bg-BG')
LocaleDate(date) ==
    IF date = "2024-01-05" THEN "5.01.2024"
    ELSE IF date = "2023-12-31" THEN "31.12.2023"
    ELSE "Invalid Date"

RECURSIVE AnswerParts(_, _)
\* the title line and the excerpt line of the posts from position i on
AnswerParts(relevantPosts, i) ==
    IF i > Len(relevantPosts) THEN <<>>
    ELSE LET post == relevantPosts[i].post
             excerpt == cleanHtml(post.excerpt)
         IN << Part("title", i, cleanHtml(post.title)),
               IF excerpt # <<>> THEN Part("excerpt", i, excerpt)
               ELSE Part("no-summary", i, <<>>) >>
            \o AnswerParts(relevantPosts, i + 1)

\* generateResponse: the fixed response for no ranked post, else the banner,
\* two lines per post, the footer, and one source per ranked post
generateResponse(query, relevantPosts) ==
    IF Len(relevantPosts) = 0 THEN NoRelevantResponse
    ELSE [answer |-> <<Part("banner", Len(relevantPosts), <<>>)>>
                     \o AnswerParts(relevantPosts, 1)
                     \o <<Part("footer", 0, <<>>)>>,
          sources |-> [i \in 1..Len(relevantPosts) |->
                         [title |-> cleanHtml(relevantPosts[i].post.title),
                          link |-> relevantPosts[i].post.link,
                          similarity |-> relevantPosts[i].similarity_score,
                          date |-> IF relevantPosts[i].post.date # ""
                                   THEN LocaleDate(relevantPosts[i].post.date)
                                   ELSE ""]]]

(***************************************************************************)
(* The questions and the documents of the model                            *)
(***************************************************************************)
QEmpty == <<>>
\* " ab ": four characters, two after trim
QShort == <<" ", "a", "b", " ">>
QCat == <<"a", "b", "c">>
\* "abc ": QCat followed by a space, another raw string
QCatSp == <<"a", "b", "c", " ">>

Questions == {QEmpty, QShort, QCat, QCatSp}

PostCat ==
    Post("1", <<"<b>", "a", "b", "c", "</b>">>,
         <<"a", "b", "c", " ", " ", "d", "a", "b">>,
         <<"c", "a", "t", "&amp;", "<script>">>, "2024-01-05")
PostDog ==
    Post("2", <<"d", "a", "b">>, <<"d", "a", "b", "&nbsp;", "x", "y", "y">>,
         <<>>, "")
PostFox ==
    Post("3", <<"x", "y", "y">>, <<>>, <<"f", "o", "x">>, "2023-12-31")
PostBoth ==
    Post("4", <<"a", "b", "c", " ", "d", "a", "b">>, <<"x", "1", "_">>,
         <<"<b>">>, "bad")

\* a relevant post whose date field has no primitive value
PostBadDate ==
    Post("5", <<"a", "b", "c">>, <<"a", "b", "c">>, <<"a", "b", "c">>, NoPrimitiveDate)

\* six posts: more than the topK of processQuery
PayloadSix == <<PostCat, PostBoth, PostCat, PostBoth, PostCat, PostCat>>

\* what the posts endpoint can answer with
Payloads ==
    { ArrayPayload(<<>>),
      ArrayPayload(<<PostCat>>),
      ArrayPayload(<<PostBoth, PostCat, PostDog>>),
      ArrayPayload(<<PostDog, PostFox>>),
      ArrayPayload(<<PostCat, NullPost>>),
      ArrayPayload(PayloadSix),
      ArrayPayload(<<PostBadDate>>),
      NullPayload,
      ObjectPayload }

\* a search that threw instead of returning posts
ThrownResult == [kind |-> "thrown", items |-> <<>>]
\* no search result yet
NoResult == [kind |-> "none", items |-> <<>>]

(***************************************************************************)
(* Errors of the network layer and the catch of searchPosts                *)
(***************************************************************************)
NoError == [raised |-> FALSE, hasMessage |-> FALSE, message |-> ""]
ErrorWith(message) == [raised |-> TRUE, hasMessage |-> TRUE, message |-> message]
\* a rejection value without a message property
ErrorNoMessage == [raised |-> TRUE, hasMessage |-> FALSE, message |-> ""]

\* the rejections of fetch() and of response.json()
Errors ==
    { ErrorWith("Failed to fetch"),
      ErrorWith("NetworkError when attempting to fetch resource."),
      ErrorWith("CORS request did not succeed"),
      ErrorWith("Unexpected token < in JSON at position 0"),
      ErrorNoMessage }

Statuses == {200, 404, 500}

\* response.ok
ResponseOk(status) == status \in 200..299

\* new Error(`HTTP ${response.status}`)
HttpError(status) ==
    ErrorWith(IF status = 404 THEN "HTTP 404" ELSE IF status = 500 THEN "HTTP 500" ELSE "HTTP")

\* String.prototype.includes on the messages of the model
Includes(message, pattern) ==
    <<message, pattern>> \in
        { <<"Failed to fetch", "Failed to fetch">>,
          <<"NetworkError when attempting to fetch resource.", "NetworkError">>,
          <<"CORS request did not succeed", "CORS">> }

\* variant: every error with a message goes to the CORS proxy
IsNetworkClassAny(message) == message # ""

\* the condition that sends searchPosts to the CORS proxy
IsNetworkClass(message) ==
    \/ Includes(message, "CORS")
    \/ Includes(message, "NetworkError")
    \/ Includes(message, "Failed to fetch")

\* the catch block of searchPosts: "fallback" calls searchWithCorsProxy,
\* "throw" leaves searchPosts with an error (reading .message.includes of a
\* value without message throws as well)
searchPostsCatch(error) ==
    IF ~error.hasMessage THEN "throw"
    ELSE IF IsNetworkClass(error.message) THEN "fallback"
    ELSE "throw"

(***************************************************************************)
(* The envelope of the CORS relay and searchWithCorsProxy                  *)
(***************************************************************************)
\* a JSON text: JSON.parse gives value when the text is valid
JsonText(value) == [empty |-> FALSE, valid |-> TRUE, value |-> value]
GarbageText == [empty |-> FALSE, valid |-> FALSE, value |-> NullPayload]
EmptyText == [empty |-> TRUE, valid |-> FALSE, value |-> NullPayload]

\* what the relay's body parses to: null, or an object with or without contents
Envelope(contents) == [isNull |-> FALSE, hasContents |-> TRUE, contents |-> contents]
EnvelopeNoContents == [isNull |-> FALSE, hasContents |-> FALSE, contents |-> EmptyText]
EnvelopeNull == [isNull |-> TRUE, hasContents |-> FALSE, contents |-> EmptyText]

\* the payloads that the model sends through the relay
RelayedPayloads == {ArrayPayload(<<>>), ArrayPayload(<<PostCat>>), NullPayload}

Envelopes ==
    {Envelope(JsonText(p)) : p \in RelayedPayloads}
        \cup {Envelope(GarbageText), Envelope(EmptyText), EnvelopeNoContents, EnvelopeNull}

\* the outcome of the relay request, as searchWithCorsProxy sees it
ProxyOutcome(stage, data) == [stage |-> stage, data |-> data]
NoProxyOutcome == ProxyOutcome("none", EnvelopeNull)

\* variant: the catch of searchWithCorsProxy rethrows
searchWithCorsProxyRethrow(outcome) ==
    IF outcome.stage = "data" /\ ~outcome.data.isNull /\ outcome.data.hasContents
       /\ ~outcome.data.contents.empty /\ outcome.data.contents.valid
    THEN outcome.data.contents.value
    ELSE ThrownResult

\* searchWithCorsProxy once the relay request has settled: the parsed
\* contents, and [] for every failure inside the try block
searchWithCorsProxy(outcome) ==
    IF outcome.stage # "data" THEN ArrayPayload(<<>>)
    ELSE IF outcome.data.isNull THEN ArrayPayload(<<>>)
    ELSE IF outcome.data.hasContents /\ ~outcome.data.contents.empty
         THEN IF outcome.data.contents.valid THEN outcome.data.contents.value
              ELSE ArrayPayload(<<>>)
    ELSE ArrayPayload(<<>>)

(***************************************************************************)
(* State                                                                   *)
(***************************************************************************)
VARIABLES
    queryCache,   \* this.queryCache: question -> {response, timestamp}
    now,          \* Date.now()
    ticks,        \* history: clock advances so far
    started,      \* history: processQuery calls so far
    call,         \* the processQuery invocations, one record per call slot
    rankInput,    \* ranking specification: the scored documents
    rankTopK,     \* ranking specification: topK
    rankOutput,   \* ranking specification: the returned list
    rankStage,    \* ranking specification: "off", "input" or "output"
    tfPosts,      \* scoring specification: the texts of the posts
    tfQuery,      \* scoring specification: the query
    tfVectors,    \* scoring specification: what createTfIdfVectors returns
    tfScores,     \* scoring specification: the similarity of every post
    tfRanked,     \* scoring specification: what rankRelevantPosts returns
    tfStage,      \* scoring specification: "off", "input" or "output"
    chatApp,      \* window.chatApp is set and has a processQuery function
    chatInput,    \* ChatUI.chatInput: its value and its disabled flag
    sendButton,   \* ChatUI.sendButton: its disabled flag and its label
    charCounter,  \* ChatUI.charCounter.textContent
    statusIndicator, \* ChatUI.statusIndicator: the status of the last setStatus
    messages,     \* the children of ChatUI.chatMessages
    toasts,       \* the children of ChatUI.toastContainer
    send,         \* the handleSendMessage run that is suspended, if any
    sends         \* history: handleSendMessage runs so far

vars == <<queryCache, now, ticks, started, call, rankInput, rankTopK, rankOutput, rankStage,
          tfPosts, tfQuery, tfVectors, tfScores, tfRanked, tfStage,
          chatApp, chatInput, sendButton, charCounter, statusIndicator, messages, toasts,
          send, sends>>

uiVars == <<chatApp, chatInput, sendButton, charCounter, statusIndicator, messages, toasts,
          send, sends>>

tfVars == <<tfPosts, tfQuery, tfVectors, tfScores, tfRanked, tfStage>>

rankVars == <<rankInput, rankTopK, rankOutput, rankStage, tfVars, uiVars>>

\* this.cacheExpiry, milliseconds
cacheExpiry == 30 * 60 * 1000

\* variant: processQuery asks for one document more
TopKSix == 5 + 1

\* the topK that processQuery passes to rankRelevantPosts
TopK == 5

\* the clock advances by a millisecond or by a millisecond less than the expiry
TickSteps == {1, cacheExpiry - 1}

NoEntry == [present |-> FALSE, response |-> GuidanceResponse, timestamp |-> 0]
CacheEntry(response, timestamp) ==
    [present |-> TRUE, response |-> response, timestamp |-> timestamp]

\* a call slot before its first call; the fields from stored on are history
IdleCall ==
    [pc |-> "idle", question |-> QEmpty, posts |-> NoResult, rankedPosts |-> <<>>,
     result |-> GuidanceResponse, stored |-> FALSE,
     primaryRequests |-> 0, fallbackRequests |-> 0, rankCalls |-> 0, composeCalls |-> 0,
     primaryError |-> NoError, proxyOutcome |-> NoProxyOutcome,
     startTime |-> 0, startEntry |-> NoEntry, doneTime |-> 0]

\* variant: the cache is keyed by the trimmed question
CacheKeyTrimmed(question) == Trim(question)

\* the key of this.queryCache.get(question) and this.queryCache.set(question, ...):
\* the string as it was passed, compared character by character
CacheKey(question) == question

\* variant: the age comparison the wrong way round
CacheFreshInverted(cached, t) == cached.present /\ (t - cached.timestamp > cacheExpiry)

\* variant: an entry as old as the expiry is still served
CacheFreshInclusive(cached, t) == cached.present /\ (t - cached.timestamp <= cacheExpiry)

\* variant: an entry never expires
CacheFreshForever(cached, t) == cached.present

\* `cached && (Date.now() - cached.timestamp < this.cacheExpiry)`
CacheFresh(cached, t) == cached.present /\ (t - cached.timestamp < cacheExpiry)

\* variant: two characters are enough
IsTooShortTwo(question) == question = <<>> \/ Len(Trim(question)) < 2

\* `!question || question.trim().length < 3`
IsTooShort(question) == question = <<>> \/ Len(Trim(question)) < 3

\* variant: the catch of processQuery lets the error escape
TryResultRethrow(thrown, response) ==
    IF thrown THEN [pc |-> "rejected", result |-> TechnicalErrorResponse]
    ELSE [pc |-> "done", result |-> response]

\* variant: the catch of processQuery answers as for an empty result
TryResultSwallow(thrown, response) ==
    IF thrown THEN [pc |-> "done", result |-> NoMatchResponse]
    ELSE [pc |-> "done", result |-> response]

\* the try/catch of processQuery: a value returned inside the try block is the
\* result, an error thrown inside it becomes the technical-error response
TryResult(thrown, response) ==
    IF thrown THEN [pc |-> "done", result |-> TechnicalErrorResponse]
    ELSE [pc |-> "done", result |-> response]

(***************************************************************************)
(* ChatUI: the elements of the page that handleSendMessage reads and       *)
(* writes                                                                  *)
(***************************************************************************)
\* a child of chatMessages: what addMessage and addLoadingMessage were given
Message(sender, content, sources, id) ==
    [sender |-> sender, content |-> content, sources |-> sources, id |-> id]

\* the element that addWelcomeMessage appends
WelcomeMessage == Message("welcome", <<>>, <<>>, 0)

\* the text of a user message, and the fixed text of the catch block,
\* 'Възникна грешка при обработката на заявката.'
QuestionContent(question) == <<Part("question", 0, question)>>
SendErrorContent == <<Part("send-error", 0, <<>>)>>

\* addMessage: the welcome element is removed, the message is appended; the
\* sources are rendered for a bot message that has some
addMessage(msgs, content, sender, sources) ==
    Append(SelectSeq(msgs, LAMBDA m : m.sender # "welcome"),
           Message(sender, content, IF sender = "bot" THEN sources ELSE <<>>, 0))

\* addLoadingMessage: an element with the id `loading_${Date.now()}`
addLoadingMessage(msgs, id) == Append(msgs, Message("loading", <<>>, <<>>, id))

\* removeMessage: the element with this id is removed
removeMessage(msgs, id) ==
    SelectSeq(msgs, LAMBDA m : ~(m.sender = "loading" /\ m.id = id))

\* showToast appends a toast of this type
showToast(ts, type) == Append(ts, type)

\* setLoading on the send button: the flag, and the label 'Изпраща...' or
\* 'Изпрати'
setLoading(isLoading) ==
    [disabled |-> isLoading, text |-> IF isLoading THEN "sending" ELSE "send"]

\* variant: the question is the value of the input as it was typed
QuestionUntrimmed(value) == value

\* `const question = this.chatInput.value.trim()`
QuestionOf(value) == Trim(value)

\* no handleSendMessage run is suspended
NoSend == [pc |-> "idle", question |-> <<>>, loadingId |-> 0]

\* the page after the constructors of ChatUI and PostVaiChatApp
InitChatUI(ready) ==
    /\ chatApp = ready
    /\ chatInput = [value |-> <<>>, disabled |-> FALSE]
    /\ sendButton = setLoading(FALSE)
    /\ charCounter = 0
    /\ statusIndicator = "ready"
    /\ messages = <<WelcomeMessage>>
    /\ toasts = <<>>
    /\ send = NoSend
    /\ sends = 0

Init ==
    /\ queryCache = [q \in Questions |-> NoEntry]
    /\ now = 0
    /\ ticks = 0
    /\ started = 0
    /\ call = [c \in Calls |-> IdleCall]
    /\ rankInput = <<>>
    /\ rankTopK = 0
    /\ rankOutput = <<>>
    /\ rankStage = "off"
    /\ tfPosts = <<>>
    /\ tfQuery = <<>>
    /\ tfVectors = [vectors |-> <<>>, vocabulary |-> <<>>]
    /\ tfScores = <<>>
    /\ tfRanked = <<>>
    /\ tfStage = "off"
    /\ InitChatUI(TRUE)

(***************************************************************************)
(* Actions: one per run of the script between two suspension points        *)
(***************************************************************************)
\* the call of slot c settles with outcome (its promise resolves with the result)
Settle(c, rec, outcome) ==
    call' = [call EXCEPT ![c] = [rec EXCEPT !.pc = outcome.pc, !.result = outcome.result,
                                            !.doneTime = now]]

\* the clock advances.  The steps of the transport (the four states between
\* the request and the return of searchPosts) read neither the clock nor the
\* cache, so the time that passes during them is accounted for when
\* searchPosts has returned: Date.now() is read at lines 208 and 229
Tick(d) ==
    /\ ticks < MaxTicks
    /\ \A c \in Calls : call[c].pc \in {"idle", "searched", "ranked", "done"}
    /\ now' = now + d
    /\ ticks' = ticks + 1
    /\ UNCHANGED <<queryCache, started, call, rankVars>>

\* variant: a call that finds another call for its question in flight makes
\* no request of its own and waits for that call
processQueryJoining(c, question) ==
    /\ call[c].pc \in {"idle", "done"}
    /\ started < MaxStarted
    /\ started' = started + 1
    /\ LET cached == queryCache[CacheKey(question)]
           rec == [IdleCall EXCEPT !.question = question, !.startTime = now,
                                   !.startEntry = cached]
           InFlight(d) == d # c /\ call[d].pc \notin {"idle", "done"}
                               /\ call[d].question = question
       IN IF CacheFresh(cached, now)
          THEN Settle(c, rec, [pc |-> "done", result |-> cached.response])
          ELSE IF IsTooShort(question)
          THEN Settle(c, rec, TryResult(FALSE, GuidanceResponse))
          ELSE IF \E d \in Calls : InFlight(d)
          THEN call' = [call EXCEPT ![c] = [rec EXCEPT !.pc = "joined"]]
          ELSE call' = [call EXCEPT ![c] =
                          [rec EXCEPT !.pc = "fetch", !.primaryRequests = 1]]
    /\ UNCHANGED <<queryCache, now, ticks, rankVars>>

\* RAGChatSystem.processQuery(question) up to its first await: the cache
\* lookup, the validation and the request of searchPosts
processQueryStarts(c, question) ==
    /\ call[c].pc \in {"idle", "done"}
    /\ started < MaxStarted
    /\ started' = started + 1
    /\ LET cached == queryCache[CacheKey(question)]
           rec == [IdleCall EXCEPT !.question = question, !.startTime = now,
                                   !.startEntry = cached]
       IN IF CacheFresh(cached, now)
          THEN Settle(c, rec, [pc |-> "done", result |-> cached.response])
          ELSE IF IsTooShort(question)
          THEN Settle(c, rec, TryResult(FALSE, GuidanceResponse))
          ELSE call' = [call EXCEPT ![c] =
                          [rec EXCEPT !.pc = "fetch", !.primaryRequests = 1]]

\* processQuery is called on its own: the page is left alone
processQuery(c, question) ==
    /\ processQueryStarts(c, question)
    /\ UNCHANGED <<queryCache, now, ticks, rankVars>>

\* the catch block of searchPosts runs with error
PrimaryFailed(c, error) ==
    LET rec == [call[c] EXCEPT !.primaryError = error]
    IN IF searchPostsCatch(error) = "fallback"
       THEN call' = [call EXCEPT ![c] =
                       [rec EXCEPT !.pc = "proxyFetch",
                                   !.fallbackRequests = rec.fallbackRequests + 1]]
       ELSE call' = [call EXCEPT ![c] = [rec EXCEPT !.pc = "searched", !.posts = ThrownResult]]

\* searchPosts: fetch(url) resolves with a response of this status
fetchResolves(c, status) ==
    /\ call[c].pc = "fetch"
    /\ IF ResponseOk(status)
       THEN call' = [call EXCEPT ![c].pc = "json"]
       ELSE PrimaryFailed(c, HttpError(status))
    /\ UNCHANGED <<queryCache, now, ticks, started, rankVars>>

\* searchPosts: fetch(url) rejects
fetchRejects(c, error) ==
    /\ call[c].pc = "fetch"
    /\ PrimaryFailed(c, error)
    /\ UNCHANGED <<queryCache, now, ticks, started, rankVars>>

\* searchPosts: response.json() resolves, searchPosts returns the payload
jsonResolves(c, payload) ==
    /\ call[c].pc = "json"
    /\ call' = [call EXCEPT ![c].pc = "searched", ![c].posts = payload]
    /\ UNCHANGED <<queryCache, now, ticks, started, rankVars>>

\* searchPosts: response.json() rejects
jsonRejects(c, error) ==
    /\ call[c].pc = "json"
    /\ PrimaryFailed(c, error)
    /\ UNCHANGED <<queryCache, now, ticks, started, rankVars>>

\* searchWithCorsProxy returns for this outcome of the relay request
ProxyReturns(c, outcome) ==
    call' = [call EXCEPT ![c].pc = "searched", ![c].proxyOutcome = outcome,
                         ![c].posts = searchWithCorsProxy(outcome)]

\* searchWithCorsProxy: fetch(proxyUrl + targetUrl) resolves (any status)
proxyFetchResolves(c) ==
    /\ call[c].pc = "proxyFetch"
    /\ call' = [call EXCEPT ![c].pc = "proxyJson"]
    /\ UNCHANGED <<queryCache, now, ticks, started, rankVars>>

\* searchWithCorsProxy: fetch(proxyUrl + targetUrl) rejects
proxyFetchRejects(c) ==
    /\ call[c].pc = "proxyFetch"
    /\ ProxyReturns(c, ProxyOutcome("fetchRejected", EnvelopeNull))
    /\ UNCHANGED <<queryCache, now, ticks, started, rankVars>>

\* searchWithCorsProxy: response.json() resolves with the relay's envelope
proxyJsonResolves(c, data) ==
    /\ call[c].pc = "proxyJson"
    /\ ProxyReturns(c, ProxyOutcome("data", data))
    /\ UNCHANGED <<queryCache, now, ticks, started, rankVars>>

\* searchWithCorsProxy: response.json() rejects
proxyJsonRejects(c) ==
    /\ call[c].pc = "proxyJson"
    /\ ProxyReturns(c, ProxyOutcome("jsonRejected", EnvelopeNull))
    /\ UNCHANGED <<queryCache, now, ticks, started, rankVars>>

\* variant: the response for an empty result is stored in the cache
afterSearchCaching(c) ==
    /\ call[c].pc = "searched"
    /\ LET rec == call[c]
       IN IF rec.posts.kind = "thrown"
          THEN /\ Settle(c, rec, TryResult(TRUE, TechnicalErrorResponse))
               /\ UNCHANGED queryCache
          ELSE IF IsEmptyResult(rec.posts)
          THEN /\ Settle(c, rec, TryResult(FALSE, NoMatchResponse))
               /\ queryCache' = [queryCache EXCEPT ![rec.question] =
                                    CacheEntry(NoMatchResponse, now)]
          ELSE /\ call' = [call EXCEPT ![c] =
                             [rec EXCEPT !.pc = "ranked",
                                         !.rankCalls = rec.rankCalls + 1,
                                            !.rankedPosts =
                                             rankRelevantPosts(rec.question, rec.posts, TopK)]]
               /\ UNCHANGED queryCache
    /\ UNCHANGED <<now, ticks, started, rankVars>>

\* processQuery resumes after `await this.searchPosts(question)`: the error
\* goes to the catch, an empty result returns, else rankRelevantPosts runs
afterSearch(c) ==
    /\ call[c].pc = "searched"
    /\ LET rec == call[c]
       IN IF rec.posts.kind = "thrown"
          THEN Settle(c, rec, TryResult(TRUE, TechnicalErrorResponse))
          ELSE IF IsEmptyResult(rec.posts)
          THEN Settle(c, rec, TryResult(FALSE, NoMatchResponse))
          ELSE call' = [call EXCEPT ![c] =
                          [rec EXCEPT !.pc = "ranked",
                                      !.rankCalls = rec.rankCalls + 1,
                                      !.rankedPosts =
                                          rankRelevantPosts(rec.question, rec.posts, TopK)]]
    /\ UNCHANGED <<queryCache, now, ticks, started, rankVars>>

\* variant: the response for an empty ranking is returned but not stored
afterRankSkippingEmpty(c) ==
    /\ call[c].pc = "ranked"
    /\ LET thrown == ComposeThrows(call[c].rankedPosts)
           empty == call[c].rankedPosts = <<>>
           rec == [call[c] EXCEPT !.composeCalls = call[c].composeCalls + 1,
                                  !.stored = ~thrown /\ ~empty]
           response == generateResponse(rec.question, rec.rankedPosts)
       IN IF thrown
          THEN /\ Settle(c, rec, TryResult(TRUE, TechnicalErrorResponse))
               /\ UNCHANGED queryCache
          ELSE IF empty
          THEN /\ Settle(c, rec, TryResult(FALSE, response))
               /\ UNCHANGED queryCache
          ELSE /\ queryCache' = [queryCache EXCEPT ![CacheKey(rec.question)] =
                                    CacheEntry(response, now)]
               /\ Settle(c, rec, TryResult(FALSE, response))
    /\ UNCHANGED <<now, ticks, started, rankVars>>

\* processQuery resumes after `await this.rankRelevantPosts(...)`:
\* generateResponse, the cache store, the return; an error thrown by
\* generateResponse skips the store and goes to the catch of processQuery
afterRank(c) ==
    /\ call[c].pc = "ranked"
    /\ LET thrown == ComposeThrows(call[c].rankedPosts)
           rec == [call[c] EXCEPT !.composeCalls = call[c].composeCalls + 1,
                                  !.stored = ~thrown]
           response == generateResponse(rec.question, rec.rankedPosts)
       IN IF thrown
          THEN /\ Settle(c, rec, TryResult(TRUE, TechnicalErrorResponse))
               /\ UNCHANGED queryCache
          ELSE /\ queryCache' = [queryCache EXCEPT ![CacheKey(rec.question)] =
                                    CacheEntry(response, now)]
               /\ Settle(c, rec, TryResult(FALSE, response))
    /\ UNCHANGED <<now, ticks, started, rankVars>>

\* the steps of the calls in these slots, and of the clock
Step(slots) ==
    \/ \E d \in TickSteps : Tick(d)
    \/ \E c \in slots, question \in Questions : processQuery(c, question)
    \/ \E c \in slots, status \in Statuses : fetchResolves(c, status)
    \/ \E c \in slots, error \in Errors : fetchRejects(c, error)
    \/ \E c \in slots, payload \in Payloads : jsonResolves(c, payload)
    \/ \E c \in slots, error \in Errors : jsonRejects(c, error)
    \/ \E c \in slots : proxyFetchResolves(c)
    \/ \E c \in slots : proxyFetchRejects(c)
    \/ \E c \in slots, data \in Envelopes : proxyJsonResolves(c, data)
    \/ \E c \in slots : proxyJsonRejects(c)
    \/ \E c \in slots : afterSearch(c)
    \/ \E c \in slots : afterRank(c)

\* calls one after the other: a call starts when the one before has settled
Next == Step(SequentialCalls)

Spec == Init /\ [][Next]_vars

\* the inputs of the overlapping calls: two questions that differ in a
\* trailing space, a primary transport that answers with an empty body or
\* one of two bodies, and a clock that advances by the expiry
OverlapQuestions == {QCat, QCatSp}
OverlapPayloads ==
    {ArrayPayload(<<>>), ArrayPayload(<<PostCat>>), ArrayPayload(<<PostBoth, PostCat, PostDog>>)}
OverlapTickSteps == {cacheExpiry}

\* overlapping calls: a call may start in one slot while the call of the
\* other slot is suspended (slot c2 is taken when slot c1 has been)
NextOverlap ==
    \/ \E d \in OverlapTickSteps : Tick(d)
    \/ \E question \in OverlapQuestions : processQuery("c1", question)
    \/ \E question \in OverlapQuestions :
          call["c1"].pc # "idle" /\ processQuery("c2", question)
    \/ \E c \in Calls : fetchResolves(c, 200)
    \/ \E c \in Calls, payload \in OverlapPayloads : jsonResolves(c, payload)
    \/ \E c \in Calls : afterSearch(c)
    \/ \E c \in Calls : afterRank(c)

SpecOverlap == Init /\ [][NextOverlap]_vars

TypeOK ==
    /\ now >= 0
    /\ \A c \in Calls : call[c].pc \in
          {"idle", "fetch", "json", "proxyFetch", "proxyJson", "searched", "ranked", "done"}

(***************************************************************************)
(* The ranking specification: the sort, filter and slice of                *)
(* rankRelevantPosts applied to every short list of scored documents       *)
(***************************************************************************)
\* similarities in thousandths: negative, zero, at the threshold, just above, higher
SimValues == {0 - 300, 0, 10, 11, 500, 900}

PostIds == <<"1", "2", "3", "4", "5", "6">>

\* the document at position i of a scored list
PostAt(i) == Post(PostIds[i], <<"a", "b", "c">>, <<>>, <<>>, "")

ScoredLists ==
    UNION { { [i \in 1..n |-> [index |-> i, similarity |-> f[i], post |-> PostAt(i)]] :
                f \in [1..n -> SimValues] } : n \in 0..MaxSims }

InitRank ==
    /\ queryCache = [q \in Questions |-> NoEntry]
    /\ now = 0
    /\ ticks = 0
    /\ started = 0
    /\ call = [c \in Calls |-> IdleCall]
    /\ rankInput \in ScoredLists
    /\ rankTopK \in 0..MaxTopK
    /\ rankOutput = <<>>
    /\ rankStage = "input"
    /\ tfPosts = <<>>
    /\ tfQuery = <<>>
    /\ tfVectors = [vectors |-> <<>>, vocabulary |-> <<>>]
    /\ tfScores = <<>>
    /\ tfRanked = <<>>
    /\ tfStage = "off"
    /\ InitChatUI(TRUE)

\* lines 161-166 of rankRelevantPosts run on the scored list
RankSelect ==
    /\ rankStage = "input"
    /\ rankOutput' = WithScores(SelectTop(rankInput, rankTopK))
    /\ rankStage' = "output"
    /\ UNCHANGED <<queryCache, now, ticks, started, call, rankInput, rankTopK, tfVars, uiVars>>

NextRank == RankSelect

SpecRank == InitRank /\ [][NextRank]_vars

(***************************************************************************)
(* The scoring specification: lines 145-166 of rankRelevantPosts applied   *)
(* to every short list of post texts and every query                       *)
(***************************************************************************)
\* "abc", "dab", "abc dab", "abc dab xyy", "abc abc dab", "Abc? xyy",
\* "ab cd" (no word longer than 2) and the empty text
ScoreTexts ==
    { <<"a", "b", "c">>,
      <<"d", "a", "b">>,
      <<"a", "b", "c", " ", "d", "a", "b">>,
      <<"a", "b", "c", " ", "d", "a", "b", " ", "x", "y", "y">>,
      <<"a", "b", "c", " ", "a", "b", "c", " ", "d", "a", "b">>,
      <<"A", "b", "c", "?", " ", "x", "y", "y">>,
      <<"a", "b", " ", "c", "d">>,
      <<>> }

\* the posts with these texts as titles
ScorePosts(texts) == [i \in 1..Len(texts) |-> Post(PostIds[i], texts[i], <<>>, <<>>, "")]

InitScore ==
    /\ queryCache = [q \in Questions |-> NoEntry]
    /\ now = 0
    /\ ticks = 0
    /\ started = 0
    /\ call = [c \in Calls |-> IdleCall]
    /\ rankInput = <<>>
    /\ rankTopK = 0
    /\ rankOutput = <<>>
    /\ rankStage = "off"
    /\ tfPosts \in UNION {[1..n -> ScoreTexts] : n \in 1..MaxPosts}
    /\ tfQuery \in ScoreTexts
    /\ tfVectors = [vectors |-> <<>>, vocabulary |-> <<>>]
    /\ tfScores = <<>>
    /\ tfRanked = <<>>
    /\ tfStage = "input"
    /\ InitChatUI(TRUE)

\* rankRelevantPosts runs on the posts and the query: the texts of the posts
\* and the query are vectorised together, every post is scored against the
\* query, and the scored posts are sorted, filtered and cut to topK
Score ==
    /\ tfStage = "input"
    /\ LET posts == ScorePosts(tfPosts)
           postTexts == [i \in 1..Len(posts) |->
                           cleanHtml(posts[i].title) \o <<" ">> \o cleanHtml(posts[i].content)]
           similarities == Similarities(tfQuery, posts)
       IN /\ tfVectors' = createTfIdfVectors(Append(postTexts, tfQuery))
          /\ tfScores' = [i \in 1..Len(posts) |-> similarities[i].similarity]
          /\ tfRanked' = rankRelevantPosts(tfQuery, ArrayPayload(posts), TopK)
    /\ tfStage' = "output"
    /\ UNCHANGED <<queryCache, now, ticks, started, call,
                   rankInput, rankTopK, rankOutput, rankStage, tfPosts, tfQuery, uiVars>>

NextScore == Score

SpecScore == InitScore /\ [][NextScore]_vars

(***************************************************************************)
(* The page specification: ChatUI drives processQuery.  The user types     *)
(* into the input or clicks an example, sends, and handleSendMessage       *)
(* awaits the answer of window.chatApp.processQuery                        *)
(***************************************************************************)
QDab == <<"d", "a", "b">>

\* what the user types: nothing, two spaces, " ab ", "ab  ", "abc", "abc ",
\* " dab"
InputValues ==
    {QEmpty, <<" ", " ">>, QShort, <<"a", "b", " ", " ">>, QCat, QCatSp,
     <<" ">> \o QDab}

\* the questions of the example buttons of addWelcomeMessage, here "dab?"
ExampleQuestions == {QDab \o <<"?">>}

\* the keys that the cache of a page may be asked for
PageQuestions ==
    LET values == InputValues \union ExampleQuestions
    IN values \union {Trim(value) : value \in values}

PagePayloads == {ArrayPayload(<<>>), ArrayPayload(<<PostCat, PostDog>>)}

\* window.chatApp is assigned by the constructor of PostVaiChatApp after
\* the listeners of ChatUI are registered; handleSendMessage tests it
InitPage ==
    /\ queryCache = [q \in PageQuestions |-> NoEntry]
    /\ now = 0
    /\ ticks = 0
    /\ started = 0
    /\ call = [c \in Calls |-> IdleCall]
    /\ rankInput = <<>>
    /\ rankTopK = 0
    /\ rankOutput = <<>>
    /\ rankStage = "off"
    /\ tfPosts = <<>>
    /\ tfQuery = <<>>
    /\ tfVectors = [vectors |-> <<>>, vocabulary |-> <<>>]
    /\ tfScores = <<>>
    /\ tfRanked = <<>>
    /\ tfStage = "off"
    /\ \E ready \in BOOLEAN : InitChatUI(ready)

\* the state of RAGChatSystem and of the other specifications
coreVars == <<queryCache, now, ticks, started, call,
              rankInput, rankTopK, rankOutput, rankStage, tfVars>>

\* the user types into the input (an enabled control): the listener of
\* 'input' runs updateCharCounter
inputEvent(value) ==
    /\ ~chatInput.disabled
    /\ chatInput' = [chatInput EXCEPT !.value = value]
    /\ charCounter' = Len(value)
    /\ UNCHANGED <<coreVars, chatApp, sendButton, statusIndicator, messages, toasts,
                   send, sends>>

\* askExample(question): a click on an example button of the welcome
\* element sets the value of the input and dispatches 'input'
askExample(question) ==
    /\ \E i \in 1..Len(messages) : messages[i].sender = "welcome"
    /\ chatInput' = [chatInput EXCEPT !.value = question]
    /\ charCounter' = Len(question)
    /\ UNCHANGED <<coreVars, chatApp, sendButton, statusIndicator, messages, toasts,
                   send, sends>>

\* handleSendMessage up to its first await.  It runs on 'submit' of the form
\* and on Enter in the input, events that a page with both controls
\* disabled does not dispatch.  Input shorter than 3 after trim: a warning
\* toast and return.  Otherwise the user message, the cleared input, the
\* loading state and the loading message; then processQuery runs up to its
\* own first await, or, without window.chatApp, the error is thrown, caught
\* and the finally block runs, all in this run
handleSendMessage ==
    /\ ~chatInput.disabled \/ ~sendButton.disabled
    /\ sends < MaxSends
    /\ sends' = sends + 1
    /\ LET question == QuestionOf(chatInput.value)
           loadingId == now
           shown == addLoadingMessage(addMessage(messages, QuestionContent(question),
                                                 "user", <<>>), loadingId)
       IN IF Len(question) < 3
          THEN /\ toasts' = showToast(toasts, "warning")
               /\ UNCHANGED <<coreVars, chatApp, chatInput, sendButton, charCounter,
                              statusIndicator, messages, send>>
          ELSE IF chatApp
          THEN /\ processQueryStarts("c1", question)
               /\ chatInput' = [value |-> <<>>, disabled |-> TRUE]
               /\ charCounter' = 0
               /\ sendButton' = setLoading(TRUE)
               /\ statusIndicator' = "processing"
               /\ messages' = shown
               /\ send' = [pc |-> "awaiting", question |-> question,
                           loadingId |-> loadingId]
               /\ UNCHANGED <<queryCache, now, ticks, rankInput, rankTopK, rankOutput,
                              rankStage, tfVars, chatApp, toasts>>
          ELSE /\ chatInput' = [value |-> <<>>, disabled |-> FALSE]
               /\ charCounter' = 0
               /\ sendButton' = setLoading(FALSE)
               /\ statusIndicator' = "error"
               /\ messages' = addMessage(removeMessage(shown, loadingId),
                                         SendErrorContent, "bot", <<>>)
               /\ toasts' = showToast(toasts, "error")
               /\ UNCHANGED <<coreVars, chatApp, send>>

\* handleSendMessage resumes when the promise of processQuery has settled
\* (PostVaiChatApp.processQuery, lines 444-450, hands on what
\* RAGChatSystem.processQuery returned): the loading message is removed; the answer is shown, or, for a
\* rejected promise, the catch block runs; the finally block ends the
\* loading state
handleSendMessageResumes ==
    /\ send.pc = "awaiting"
    /\ call["c1"].pc \in {"done", "rejected"}
    /\ LET response == call["c1"].result
           cleared == removeMessage(messages, send.loadingId)
       IN IF call["c1"].pc = "done"
          THEN /\ messages' = addMessage(cleared, response.answer, "bot", response.sources)
               /\ statusIndicator' = "ready"
               /\ UNCHANGED toasts
          ELSE /\ messages' = addMessage(cleared, SendErrorContent, "bot", <<>>)
               /\ statusIndicator' = "error"
               /\ toasts' = showToast(toasts, "error")
    /\ sendButton' = setLoading(FALSE)
    /\ chatInput' = [chatInput EXCEPT !.disabled = FALSE]
    /\ send' = NoSend
    /\ UNCHANGED <<coreVars, chatApp, charCounter, sends>>

\* the timer of showToast removes the oldest toast
toastExpires ==
    /\ toasts # <<>>
    /\ toasts' = Tail(toasts)
    /\ UNCHANGED <<coreVars, chatApp, chatInput, sendButton, charCounter, statusIndicator,
                   messages, send, sends>>

NextPage ==
    \/ \E value \in InputValues : inputEvent(value)
    \/ \E question \in ExampleQuestions : askExample(question)
    \/ handleSendMessage
    \/ handleSendMessageResumes
    \/ toastExpires
    \/ \E d \in OverlapTickSteps : Tick(d)
    \/ \E status \in {200, 500} : fetchResolves("c1", status)
    \/ \E payload \in PagePayloads : jsonResolves("c1", payload)
    \/ afterSearch("c1")
    \/ afterRank("c1")

SpecPage == InitPage /\ [][NextPage]_vars

(***************************************************************************)
(* Vocabulary of the properties, spelled out apart from the model's own    *)
(* tests                                                                   *)
(***************************************************************************)
\* thirty minutes in milliseconds
ThirtyMinutes == 30 * 60 * 1000

\* the question is empty or has fewer than 3 characters after trimming
ShortQuestion(q) == q = <<>> \/ Len(Trim(q)) < 3

\* an error whose message names CORS, NetworkError or Failed to fetch
NetworkClassError(error) ==
    /\ error.raised
    /\ error.hasMessage
    /\ error.message \in { "Failed to fetch",
                           "NetworkError when attempting to fetch resource.",
                           "CORS request did not succeed" }

\* the retrieval gave no document: null or an array without elements
EmptyRetrieval(posts) == posts = NullPayload \/ posts = ArrayPayload(<<>>)

\* the relay request failed inside searchWithCorsProxy
FallbackFailed(outcome) ==
    \/ outcome.stage \in {"fetchRejected", "jsonRejected"}
    \/ /\ outcome.stage = "data"
       /\ \/ outcome.data.isNull
          \/ ~outcome.data.hasContents
          \/ outcome.data.contents.empty
          \/ ~outcome.data.contents.valid

\* the call in slot c completes in this step
Completes(c) == call'[c].pc = "done" /\ call'[c] # call[c]

\* the cache entry of the call's question had expired when the call began
ExpiredAtStart(rec) ==
    rec.startEntry.present /\ rec.startTime - rec.startEntry.timestamp >= ThirtyMinutes

(***************************************************************************)
(* C1                                                                      *)
(***************************************************************************)
\* the call ended on a failure path: too-short input, empty retrieval,
\* transport error without recovery, or an error while scoring
FailurePath(rec) ==
    \/ rec.primaryRequests = 0 /\ ShortQuestion(rec.question)
    \/ EmptyRetrieval(rec.posts)
    \/ rec.primaryError.raised /\ rec.fallbackRequests = 0
    \/ rec.rankCalls = 1 /\ (rec.posts.kind # "array"
                             \/ \E i \in 1..Len(rec.posts.items) : rec.posts.items[i].isNull)

\* C1: processQuery never rejects: no call is ever in the rejected state, a
\* completed call holds a response object (an answer and a sources list), and
\* on every failure path the sources list is empty
C1_NeverRejects ==
    \A c \in Calls :
        /\ call[c].pc # "rejected"
        /\ call[c].pc = "done" =>
              /\ Len(call[c].result.answer) > 0
              /\ Len(call[c].result.sources) >= 0
              /\ FailurePath(call[c]) => call[c].result.sources = <<>>

\* a call completed after a transport error that was not recovered
C1_Witness ==
    \E c \in Calls :
        /\ call[c].pc = "done"
        /\ call[c].primaryError.raised
        /\ call[c].fallbackRequests = 0
        /\ call[c].result = TechnicalErrorResponse

(***************************************************************************)
(* C2                                                                      *)
(***************************************************************************)
\* slot c starts a call for the question of its completed call, less than
\* thirty minutes after that call completed
RepeatsWithinTtl(c) ==
    /\ started' = started + 1
    /\ call'[c] # call[c]
    /\ call[c].pc = "done"
    /\ call'[c].question = call[c].question
    /\ now - call[c].doneTime < ThirtyMinutes

\* the second call returns at once the response of the first, without a request
SameResponseNoRetrieval(c) ==
    /\ call'[c].pc = "done"
    /\ call'[c].result = call[c].result
    /\ call'[c].primaryRequests = 0
    /\ call'[c].fallbackRequests = 0

C3_ExpiryAlwaysOverwrites ==
    [][\A c \in Calls :
          (Completes(c) /\ ExpiredAtStart(call'[c])) =>
              /\ call'[c].primaryRequests = 1
              /\ queryCache'[call'[c].question] = CacheEntry(call'[c].result, now)]_vars

\* C3 amended: a call that found an expired entry does not return it but
\* requests the primary transport again; a composed response overwrites the
\* entry with a new timestamp, while a no-match or technical-error result
\* leaves the expired entry as it was
C3_ExpiryRefetches ==
    [][\A c \in Calls :
          (Completes(c) /\ ExpiredAtStart(call'[c])) =>
              /\ call'[c].primaryRequests = 1
              /\ IF call'[c].result \in {NoMatchResponse, TechnicalErrorResponse}
                 THEN queryCache'[call'[c].question] = queryCache[call'[c].question]
                 ELSE /\ queryCache'[call'[c].question] = CacheEntry(call'[c].result, now)
                      /\ now > call'[c].startEntry.timestamp]_vars

\* a call found an expired entry, searched again and stored a new entry
C3_Witness ==
    \E c \in Calls :
        /\ call[c].pc = "done"
        /\ ExpiredAtStart(call[c])
        /\ call[c].primaryRequests = 1
        /\ call[c].stored
        /\ queryCache[call[c].question] = CacheEntry(call[c].result, call[c].doneTime)
        /\ call[c].doneTime > call[c].startEntry.timestamp

(***************************************************************************)
(* C4                                                                      *)
(***************************************************************************)
\* C4: the cache never holds the guidance, the no-match or the
\* technical-error response, and every entry written is the response that
\* generateResponse composes for the writing call's non-empty retrieval
C4_CacheOnlyComposed ==
    [][\A q \in Questions :
          /\ queryCache'[q].present =>
                queryCache'[q].response \notin
                    {GuidanceResponse, NoMatchResponse, TechnicalErrorResponse}
          /\ queryCache'[q] # queryCache[q] =>
                \E c \in Calls :
                    /\ call[c].question = q
                    /\ call[c].posts.kind \in {"array", "object"}
                    /\ ~EmptyRetrieval(call[c].posts)
                    /\ ~ShortQuestion(q)
                    /\ queryCache'[q].response =
                          generateResponse(q, rankRelevantPosts(q, call[c].posts, 5))]_vars

\* one question has a composed entry while a call for another question
\* ended with the no-match response and left no entry
C4_Witness ==
    \E c \in Calls, q \in Questions :
        /\ queryCache[q].present
        /\ queryCache[q].response.sources # <<>>
        /\ call[c].pc = "done"
        /\ call[c].result = NoMatchResponse
        /\ ~queryCache[call[c].question].present

(***************************************************************************)
(* C5                                                                      *)
(***************************************************************************)
\* C5: a call for an empty or too-short question is complete at once with the
\* guidance response and empty sources, and has made no request
C5_ShortQuestionGuidance ==
    \A c \in Calls :
        (call[c].pc # "idle" /\ ShortQuestion(call[c].question)) =>
            /\ call[c].pc = "done"
            /\ call[c].result = GuidanceResponse
            /\ call[c].result.sources = <<>>
            /\ call[c].primaryRequests = 0
            /\ call[c].fallbackRequests = 0

\* a too-short question was answered while the cache already held an entry
C5_Witness ==
    \E c \in Calls, q \in Questions :
        /\ call[c].pc = "done"
        /\ call[c].question = QShort
        /\ call[c].result = GuidanceResponse
        /\ queryCache[q].present

(***************************************************************************)
(* C6                                                                      *)
(***************************************************************************)
\* C6: a call requests the primary transport at most once, and the fallback
\* exactly once when the primary failed with a network-class error and never
\* otherwise
C6_FallbackOnlyOnNetworkError ==
    \A c \in Calls :
        /\ call[c].primaryRequests <= 1
        /\ call[c].fallbackRequests <= 1
        /\ call[c].fallbackRequests = 1 <=> NetworkClassError(call[c].primaryError)
        /\ call[c].pc \in {"proxyFetch", "proxyJson"} => call[c].fallbackRequests = 1

\* a call completed after its one fallback request
C6_Witness ==
    \E c \in Calls :
        /\ call[c].pc = "done"
        /\ call[c].primaryRequests = 1
        /\ call[c].fallbackRequests = 1
        /\ call[c].primaryError = ErrorWith("CORS request did not succeed")

(***************************************************************************)
(* C7                                                                      *)
(***************************************************************************)
\* C7: a failure inside the fallback transport yields an empty result, and
\* the call returns the no-match response, not the technical-error response
C7_FallbackFailureIsNoMatch ==
    \A c \in Calls :
        FallbackFailed(call[c].proxyOutcome) =>
            /\ call[c].posts = ArrayPayload(<<>>)
            /\ call[c].pc = "done" => call[c].result = NoMatchResponse

\* the relay answered with contents that do not parse, and the call completed
C7_Witness ==
    \E c \in Calls :
        /\ call[c].pc = "done"
        /\ call[c].proxyOutcome = ProxyOutcome("data", Envelope(GarbageText))
        /\ call[c].result = NoMatchResponse

(***************************************************************************)
(* C8                                                                      *)
(***************************************************************************)
\* C8: a primary failure that is not network-class leaves the transport as an
\* error without a fallback request, and the call returns the technical-error
\* response with empty sources
C8_OtherErrorIsTechnicalError ==
    \A c \in Calls :
        (call[c].primaryError.raised /\ ~NetworkClassError(call[c].primaryError)) =>
            /\ call[c].fallbackRequests = 0
            /\ call[c].pc \in {"searched", "done"}
            /\ call[c].posts.kind = "thrown"
            /\ call[c].pc = "done" =>
                  /\ call[c].result = TechnicalErrorResponse
                  /\ call[c].result.sources = <<>>

\* the primary answered with status 500 and the call completed
C8_Witness ==
    \E c \in Calls :
        /\ call[c].pc = "done"
        /\ call[c].primaryError = HttpError(500)
        /\ call[c].result = TechnicalErrorResponse

(***************************************************************************)
(* C9                                                                      *)
(***************************************************************************)
\* C9: when the transport returned an empty sequence the call returns the
\* no-match response with empty sources, and neither rankRelevantPosts nor
\* generateResponse has run
C9_EmptyResultNoRanking ==
    \A c \in Calls :
        (call[c].posts = ArrayPayload(<<>>) /\ call[c].pc \notin {"searched"}) =>
            /\ call[c].pc = "done"
            /\ call[c].result = NoMatchResponse
            /\ call[c].result.sources = <<>>
            /\ call[c].rankCalls = 0
            /\ call[c].composeCalls = 0

\* the primary transport returned an empty array and the call completed
C9_Witness ==
    \E c \in Calls :
        /\ call[c].pc = "done"
        /\ call[c].posts = ArrayPayload(<<>>)
        /\ call[c].primaryRequests = 1
        /\ call[c].fallbackRequests = 0
        /\ call[c].result = NoMatchResponse

(***************************************************************************)
(* C10                                                                     *)
(***************************************************************************)
\* the positions of the scored list whose similarity is above 0.01
AboveThreshold == {i \in 1..Len(rankInput) : rankInput[i].similarity > 10}

\* the positions of the scored list that were returned
Returned == {i \in 1..Len(rankInput) :
                \E j \in 1..Len(rankOutput) : rankOutput[j].post.id = rankInput[i].post.id}

\* C10: the ranking returns at most topK documents, each with a similarity
\* above 0.01, in non-increasing order, and they are the topK best of the
\* documents above the threshold
C10_RankTopK ==
    rankStage = "output" =>
        /\ Len(rankOutput) <= rankTopK
        /\ \A j \in 1..Len(rankOutput) : rankOutput[j].similarity_score > 10
        /\ \A j, k \in 1..Len(rankOutput) :
              j < k => rankOutput[j].similarity_score >= rankOutput[k].similarity_score
        /\ Len(rankOutput) = Min(rankTopK, Cardinality(AboveThreshold))
        /\ Cardinality(Returned) = Len(rankOutput)
        /\ Returned \subseteq AboveThreshold
        /\ \A j \in 1..Len(rankOutput) : \E i \in Returned :
              /\ rankInput[i].post = rankOutput[j].post
              /\ rankInput[i].similarity = rankOutput[j].similarity_score
        /\ \A i \in AboveThreshold \ Returned : \A j \in 1..Len(rankOutput) :
              rankInput[i].similarity <= rankOutput[j].similarity_score

\* a list that had to be reordered, with a document exactly at the threshold
\* left out although fewer than topK documents were returned
C10_Witness ==
    /\ rankStage = "output"
    /\ rankTopK = 3
    /\ Len(rankInput) = 3
    /\ Len(rankOutput) = 2
    /\ \E i \in 1..Len(rankInput) : rankInput[i].similarity = 10
    /\ rankOutput[1].post.id # rankInput[1].post.id
    /\ rankOutput[1].similarity_score > rankOutput[2].similarity_score

(***************************************************************************)
(* C11                                                                     *)
(***************************************************************************)
\* C11: under every interleaving of the calls, an entry changes only in the
\* step in which a call returns from ranking, the call was made for exactly
\* the raw string that is the entry's key, the entry holds that call's
\* response, and the entries of all other raw strings stay as they were
C11_CacheKeyedByRawQuestion ==
    [][\A q \in Questions :
          queryCache'[q] # queryCache[q] =>
              /\ \E c \in Calls :
                    /\ call[c].pc = "ranked"
                    /\ call'[c].pc = "done"
                    /\ call[c].question = q
                    /\ queryCache'[q] = CacheEntry(call'[c].result, now)
              /\ \A other \in Questions \ {q} : queryCache'[other] = queryCache[other]]_vars

\* the overlapping call for "abc " has stored its response while the call for
\* "abc" is still suspended, and "abc" has no entry
C11_Witness ==
    /\ started = 2
    /\ call["c1"].pc = "ranked"
    /\ call["c1"].question = QCat
    /\ call["c2"].pc = "done"
    /\ call["c2"].question = QCatSp
    /\ call["c2"].stored
    /\ queryCache[QCatSp] = CacheEntry(call["c2"].result, call["c2"].doneTime)
    /\ ~queryCache[QCat].present

(***************************************************************************)
(* C12                                                                     *)
(***************************************************************************)
\* the documents make the scoring throw: the result is not an array, or one
\* of its elements is null
MalformedForScoring(posts) ==
    \/ posts.kind = "object"
    \/ posts.kind = "array" /\ \E i \in 1..Len(posts.items) : posts.items[i].isNull

\* a ranked document makes the composition throw: its date is an object
\* without a primitive value
MalformedForComposition(rankedPosts) ==
    \E i \in 1..Len(rankedPosts) : rankedPosts[i].post.date = "{toString:1,valueOf:1}"

\* the call in slot c has passed the step in which the exception is raised
Ranked(c) == call[c].rankCalls = 1
Composed(c) == call[c].composeCalls = 1

\* C12 as stated: a call in which the scoring or the composition raised an
\* exception returns the no-relevant response
C12_ThrowsDegradeToNoRelevant ==
    \A c \in Calls :
        (/\ call[c].pc = "done"
         /\ \/ Ranked(c) /\ MalformedForScoring(call[c].posts)
            \/ Composed(c) /\ MalformedForComposition(call[c].rankedPosts))
            => call[c].result = NoRelevantResponse

\* C12 amended: an exception raised during scoring is caught inside
\* rankRelevantPosts, the ranking is empty and the call returns the
\* no-relevant response; an exception raised during composition is caught by
\* processQuery, which returns the technical-error response and stores
\* nothing; in neither case is the call rejected
C12_ScoringThrowDegrades ==
    \A c \in Calls :
        /\ call[c].pc # "rejected"
        /\ (Ranked(c) /\ MalformedForScoring(call[c].posts)) =>
              /\ call[c].rankedPosts = <<>>
              /\ call[c].pc = "done" => call[c].result = NoRelevantResponse
        /\ (Composed(c) /\ MalformedForComposition(call[c].rankedPosts)) =>
              /\ call[c].pc = "done"
              /\ call[c].result = TechnicalErrorResponse
              /\ ~call[c].stored

\* a call whose documents hold a relevant post and a null element completed
C12_Witness ==
    \E c \in Calls :
        /\ call[c].pc = "done"
        /\ call[c].posts = ArrayPayload(<<PostCat, NullPost>>)
        /\ call[c].rankedPosts = <<>>
        /\ call[c].result = NoRelevantResponse

(***************************************************************************)
(* C13                                                                     *)
(***************************************************************************)
\* the call in slot c has returned what generateResponse composed
ReturnedComposed(c) ==
    /\ call[c].pc = "done"
    /\ Composed(c)
    /\ ~MalformedForComposition(call[c].rankedPosts)

\* C13: a composed response is the no-relevant response with empty sources
\* exactly when the ranked list is empty; otherwise it has one source per
\* ranked document, in the order of the ranked list; and no response that
\* processQuery returns or stores has more than 5 sources
C13_SourcesParallelRanked ==
    /\ \A c \in Calls :
          /\ ReturnedComposed(c) =>
                /\ call[c].result = NoRelevantResponse <=> call[c].rankedPosts = <<>>
                /\ call[c].rankedPosts = <<>> => call[c].result.sources = <<>>
                /\ Len(call[c].result.sources) = Len(call[c].rankedPosts)
                /\ \A i \in 1..Len(call[c].rankedPosts) :
                      /\ call[c].result.sources[i].link = call[c].rankedPosts[i].post.link
                      /\ call[c].result.sources[i].similarity =
                            call[c].rankedPosts[i].similarity_score
          /\ call[c].pc = "done" => Len(call[c].result.sources) <= 5
    /\ \A q \in Questions : Len(queryCache[q].response.sources) <= 5

\* six relevant documents were retrieved and the response has five sources
C13_Witness ==
    \E c \in Calls :
        /\ ReturnedComposed(c)
        /\ Len(call[c].posts.items) = 6
        /\ Len(call[c].rankedPosts) = 5
        /\ Len(call[c].result.sources) = 5
        /\ call[c].result.sources[5].link # call[c].result.sources[1].link

(***************************************************************************)
(* C14                                                                     *)
(***************************************************************************)
\* the call of slot c is suspended between its lookup and its store
Suspended(c) == call[c].pc \in {"fetch", "json", "proxyFetch", "proxyJson", "searched", "ranked"}

\* the entry is absent, or thirty minutes old or older, at time t
AbsentOrExpired(entry, t) == ~entry.present \/ t - entry.timestamp >= ThirtyMinutes

\* slot c begins a call for the question of the suspended call of slot d
StartsBeside(c, d) ==
    /\ c # d
    /\ started' = started + 1
    /\ call'[c] # call[c]
    /\ Suspended(d)
    /\ call'[c].question = call[d].question

\* C14: a call that begins while another call for the same key is suspended,
\* and finds the key absent or expired, misses the cache and makes its own
\* primary request; the other call goes on unchanged, and both calls rank
\* and store for themselves
C14_OverlappingCallsBothRetrieve ==
    [][\A c, d \in Calls :
          /\ (StartsBeside(c, d) /\ AbsentOrExpired(queryCache[call[d].question], now)) =>
                /\ call'[c].pc = "fetch"
                /\ call'[c].primaryRequests = 1
                /\ call'[d] = call[d]
                /\ queryCache' = queryCache
          /\ (c # d /\ call'[c].pc = "ranked" /\ call'[d].pc = "ranked") =>
                call'[c].rankCalls = 1 /\ call'[d].rankCalls = 1]_vars

\* two calls for the same question are both suspended after ranking, each
\* with its own primary request and its own ranking, and nothing is stored
C14_Witness ==
    /\ call["c1"].question = QCat
    /\ call["c2"].question = QCat
    /\ call["c1"].pc = "ranked"
    /\ call["c2"].pc = "ranked"
    /\ call["c1"].primaryRequests = 1
    /\ call["c2"].primaryRequests = 1
    /\ call["c1"].rankCalls = 1
    /\ call["c2"].rankCalls = 1
    /\ ~queryCache[QCat].present

(***************************************************************************)
(* C15                                                                     *)
(***************************************************************************)
\* the age of the entry that the call of slot c found at its lookup
AgeAtLookup(c) == call[c].startTime - call[c].startEntry.timestamp

\* the call of slot c was answered from the entry it found, without a request
ServedFromCache(c) ==
    /\ call[c].pc = "done"
    /\ call[c].primaryRequests = 0
    /\ call[c].result = call[c].startEntry.response

\* C15 as stated: a lookup that finds an entry is a hit exactly when the
\* entry's age is at most thirty minutes
C15_HitUpToTtl ==
    \A c \in Calls :
        (call[c].pc # "idle" /\ call[c].startEntry.present) =>
            (ServedFromCache(c) <=> AgeAtLookup(c) <= ThirtyMinutes)

\* C15 amended: a lookup that finds an entry is a hit exactly when the
\* entry's age is less than thirty minutes; at an age of exactly thirty
\* minutes, as at any greater age, it is a miss and the call requests the
\* primary transport
C15_HitBelowTtl ==
    \A c \in Calls :
        (call[c].pc # "idle" /\ call[c].startEntry.present) =>
            /\ ServedFromCache(c) <=> AgeAtLookup(c) < ThirtyMinutes
            /\ AgeAtLookup(c) >= ThirtyMinutes => call[c].primaryRequests = 1

\* a call found an entry exactly thirty minutes old and searched again
C15_Witness ==
    \E c \in Calls :
        /\ call[c].pc = "done"
        /\ call[c].startEntry.present
        /\ AgeAtLookup(c) = ThirtyMinutes
        /\ call[c].primaryRequests = 1

(***************************************************************************)
(* C16                                                                     *)
(***************************************************************************)
\* the position in the scored list of the document at position j of the output
OriginalIndex(j) ==
    CHOOSE i \in 1..Len(rankInput) : rankInput[i].post.id = rankOutput[j].post.id

\* C16: documents of equal similarity appear in the output in the order of
\* their positions in the fetched list, and where the truncation to topK
\* cuts through documents of equal similarity it keeps the earlier ones
C16_TiesKeepOriginalOrder ==
    rankStage = "output" =>
        /\ \A j, k \in 1..Len(rankOutput) :
              (j < k /\ rankOutput[j].similarity_score = rankOutput[k].similarity_score)
                  => OriginalIndex(j) < OriginalIndex(k)
        /\ \A i1, i2 \in 1..Len(rankInput) :
              (/\ i1 < i2
               /\ rankInput[i1].similarity = rankInput[i2].similarity
               /\ i2 \in Returned) => i1 \in Returned

\* two documents of equal similarity in front of a better one: with topK 2
\* the better one and the earlier of the two were returned, the later was cut off
C16_Witness ==
    /\ rankStage = "output"
    /\ Len(rankInput) = 3
    /\ rankTopK = 2
    /\ rankInput[1].similarity = 500
    /\ rankInput[2].similarity = 500
    /\ rankInput[3].similarity = 900
    /\ Len(rankOutput) = 2
    /\ rankOutput[1].post.id = rankInput[3].post.id
    /\ rankOutput[2].post.id = rankInput[1].post.id

(***************************************************************************)
(* Vocabulary of the scoring properties                                    *)
(***************************************************************************)
\* the words of a text: lower case, runs of letters, digits and underscores,
\* longer than two characters
RECURSIVE WordsOf(_, _)
WordsOf(text, word) ==
    LET Letter(ch) == ch \in {"a", "b", "c", "d", "x", "y"}
        Lower(ch) == IF ch = "A" THEN "a" ELSE ch
        done == IF Len(word) > 2 THEN <<word>> ELSE <<>>
    IN IF text = <<>> THEN done
       ELSE IF Letter(Lower(Head(text)))
            THEN WordsOf(Tail(text), Append(word, Lower(Head(text))))
            ELSE done \o WordsOf(Tail(text), <<>>)

\* the texts that were vectorised, the query last
ScoredTexts == Append(tfPosts, tfQuery)

\* the words of the corpus
CorpusWords == UNION {SeqToSet(WordsOf(ScoredTexts[d], <<>>)) : d \in 1..Len(ScoredTexts)}

\* the number of texts that hold the word
DocFreq(word) ==
    Cardinality({d \in 1..Len(ScoredTexts) : word \in SeqToSet(WordsOf(ScoredTexts[d], <<>>))})

\* the sum of the squares of a vector's components
SquaredNorm(vec) == SumSeq([i \in 1..Len(vec) |-> vec[i] * vec[i]])

(***************************************************************************)
(* C17                                                                     *)
(***************************************************************************)
\* the component of text d for the word at position i of the vocabulary
Component(d, i) == tfVectors.vectors[d][i]

\* the word at position i of the vocabulary occurs in text d
Occurs(d, i) == tfVectors.vocabulary[i] \in SeqToSet(WordsOf(ScoredTexts[d], <<>>))

\* C17 as stated: every component of every vector is non-negative, and zero
\* for a word that the text does not hold
C17_ComponentsNonNegative ==
    tfStage = "output" =>
        \A d \in 1..Len(tfVectors.vectors) : \A i \in 1..Len(tfVectors.vocabulary) :
            /\ Component(d, i) >= 0
            /\ ~Occurs(d, i) => Component(d, i) = 0

\* C17 amended: there is one vector per text and one component per word of
\* the corpus; a component is zero for a word that the text does not hold, and
\* for a word that it holds the component has the sign of
\* ln(docCount / (1 + docFreq)): positive when the word is missing from at
\* least two texts, zero when it is missing from exactly one, and negative
\* when every text holds it
C17_ComponentSignFollowsIdf ==
    tfStage = "output" =>
        /\ Len(tfVectors.vectors) = Len(ScoredTexts)
        /\ SeqToSet(tfVectors.vocabulary) = CorpusWords
        /\ \A d \in 1..Len(tfVectors.vectors) :
              /\ Len(tfVectors.vectors[d]) = Len(tfVectors.vocabulary)
              /\ \A i \in 1..Len(tfVectors.vocabulary) :
                    LET docCount == Len(ScoredTexts)
                        docFreq == DocFreq(tfVectors.vocabulary[i])
                    IN /\ ~Occurs(d, i) => Component(d, i) = 0
                       /\ Occurs(d, i) =>
                             /\ Component(d, i) > 0 <=> docCount > 1 + docFreq
                             /\ Component(d, i) = 0 <=> docCount = 1 + docFreq
                             /\ Component(d, i) < 0 <=> docCount < 1 + docFreq

\* a vector with a negative component for a word that every text holds and
\* a positive component for a word of its own, and a vector without that word
C17_Witness ==
    /\ tfStage = "output"
    /\ \E d, e \in 1..Len(tfVectors.vectors) : \E i, j \in 1..Len(tfVectors.vocabulary) :
          /\ Occurs(d, i) /\ Component(d, i) < 0
          /\ Occurs(d, j) /\ Component(d, j) > 0
          /\ ~Occurs(e, j) /\ Component(e, j) = 0

QueryVector == tfVectors.vectors[Len(tfVectors.vectors)]
PostVector(i) == tfVectors.vectors[i]

\* C19: the similarity is exactly 0 whenever the vector of the query or of
\* the post has zero norm, and a query without a word longer than 2 has
\* similarity 0 to every post and an empty ranking
C19_ZeroNormScoresZero ==
    tfStage = "output" =>
        /\ \A i \in 1..Len(tfScores) :
              (SquaredNorm(QueryVector) = 0 \/ SquaredNorm(PostVector(i)) = 0)
                  => tfScores[i] = 0
        /\ WordsOf(tfQuery, <<>>) = <<>> =>
              /\ SquaredNorm(QueryVector) = 0
              /\ \A i \in 1..Len(tfScores) : tfScores[i] = 0
              /\ tfRanked = <<>>

\* the query "ab cd" was scored against two posts, one of them with words:
\* the vectors have a component, the query's is all zero
C19_Witness ==
    /\ tfStage = "output"
    /\ tfQuery = <<"a", "b", " ", "c", "d">>
    /\ Len(tfPosts) = 2
    /\ Len(QueryVector) > 0
    /\ \E i \in 1..Len(tfScores) : SquaredNorm(PostVector(i)) > 0
    /\ tfScores = <<0, 0>>
    /\ tfRanked = <<>>

(***************************************************************************)
(* C20                                                                     *)
(***************************************************************************)
\* the call of slot c retrieved documents and its ranking came back empty
RankedNothing(c) ==
    /\ call[c].pc = "done"
    /\ Ranked(c)
    /\ ~EmptyRetrieval(call[c].posts)
    /\ call[c].rankedPosts = <<>>

\* the call of slot c found an entry less than thirty minutes old that holds
\* the no-relevant response
FoundNoRelevantEntry(c) ==
    /\ call[c].pc # "idle"
    /\ call[c].startEntry.present
    /\ call[c].startEntry.response = NoRelevantResponse
    /\ AgeAtLookup(c) < ThirtyMinutes

\* C20: a call whose retrieval was not empty and whose ranking was empty
\* returns the no-relevant response and stores it under its raw question; a
\* call that finds that entry within the TTL returns it without a request;
\* and no entry holds another of the fixed responses
C20_NoRelevantIsCached ==
    /\ \A c \in Calls :
          /\ RankedNothing(c) =>
                /\ call[c].result = NoRelevantResponse
                /\ call[c].stored
                /\ queryCache[call[c].question] =
                      CacheEntry(NoRelevantResponse, call[c].doneTime)
          /\ FoundNoRelevantEntry(c) =>
                /\ call[c].pc = "done"
                /\ call[c].result = NoRelevantResponse
                /\ call[c].primaryRequests = 0
                /\ call[c].fallbackRequests = 0
                /\ call[c].rankCalls = 0
    /\ \A q \in Questions :
          queryCache[q].present =>
              queryCache[q].response \notin
                  {GuidanceResponse, NoMatchResponse, TechnicalErrorResponse}

\* a repeated question was answered with the stored no-relevant response
C20_Witness ==
    \E c \in Calls :
        /\ FoundNoRelevantEntry(c)
        /\ call[c].pc = "done"
        /\ call[c].startTime > call[c].startEntry.timestamp
        /\ call[c].result = NoRelevantResponse
        /\ call[c].primaryRequests = 0

(***************************************************************************)
(* C21: what handleSendMessage passes on, and the end of the loading state *)
(***************************************************************************)
\* the text has no space at either end
IsTrimmed(text) ==
    text = <<>> \/ (text[1] # " " /\ text[Len(text)] # " ")

\* the step is a run of handleSendMessage from its start
SendRuns == sends' = sends + 1

\* the step calls processQuery
QueryStarts == started' = started + 1

\* the step ends a run of handleSendMessage that awaited its query
SendEnds == send.pc = "awaiting" /\ send'.pc = "idle"

\* both controls accept input
ControlsEnabled == ~sendButton.disabled /\ ~chatInput.disabled

\* C21: every question that handleSendMessage passes to processQuery is the
\* trimmed value of the input and has at least 3 characters; a run on a
\* shorter input appends a warning toast, calls nothing and changes nothing
\* else; the controls are disabled exactly while a run awaits its query, and
\* the step that ends the run, with an answer or with an error, leaves both
\* the send button and the input enabled
C21_SendTrimmedAndLoadingReset ==
    /\ [](/\ \A c \in Calls :
               call[c].pc # "idle" =>
                   IsTrimmed(call[c].question) /\ Len(call[c].question) >= 3
          /\ send.pc = "awaiting" =>
                 IsTrimmed(send.question) /\ Len(send.question) >= 3
          /\ (send.pc = "idle") = ControlsEnabled
          /\ (send.pc = "awaiting") = (sendButton.disabled /\ chatInput.disabled))
    /\ [][/\ QueryStarts =>
               /\ SendRuns
               /\ Len(Trim(chatInput.value)) >= 3
               /\ call'["c1"].question = Trim(chatInput.value)
               /\ call'["c1"].startTime = now
          /\ (SendRuns /\ Len(Trim(chatInput.value)) < 3) =>
               /\ toasts' = Append(toasts, "warning")
               /\ UNCHANGED <<queryCache, started, call, chatInput, sendButton,
                              statusIndicator, messages, send>>
          /\ (SendRuns /\ Len(Trim(chatInput.value)) >= 3) =>
               \/ QueryStarts
               \/ ~chatApp /\ ControlsEnabled' /\ statusIndicator' = "error"
          /\ SendEnds =>
               /\ ControlsEnabled'
               /\ \A i \in 1..Len(messages') : messages'[i].sender # "loading"
         ]_vars

\* a run on "ab  " (four characters, two after trim) only showed the warning
\* toast; a later run passed a question to processQuery, the query fetched,
\* ranked and answered with sources, the run resumed and showed the answer,
\* and both controls are enabled again
C21_Witness ==
    /\ sends >= 2
    /\ \E i \in 1..Len(toasts) : toasts[i] = "warning"
    /\ send.pc = "idle"
    /\ call["c1"].pc = "done"
    /\ call["c1"].primaryRequests = 1
    /\ call["c1"].result.sources # <<>>
    /\ Len(messages) >= 2
    /\ messages[Len(messages)] =
          Message("bot", call["c1"].result.answer, call["c1"].result.sources, 0)
    /\ messages[Len(messages) - 1].sender = "user"
    /\ statusIndicator = "ready"
    /\ ControlsEnabled

====
